---- MODULE Spec2Model ----
(***************************************************************************)
(* The conversation view-model of static/script.js: the session id         *)
(* currentConversationId, the chat box, the sidebar, the browser URL and    *)
(* the asynchronous sendMessage / loadConversation / loadConversationHistory*)
(* / handleShare calls, whose network responses interleave on the browser's *)
(* event loop.                                                              *)
(*                                                                         *)
(* One action is one run-to-completion step of the event loop: a DOM event  *)
(* handler up to its first pending fetch, or the continuation that runs     *)
(* when a fetch (and its response.json()) settles, up to the next pending   *)
(* fetch.  No program state is read or written between `await fetch` and    *)
(* `await response.json()`, so the two are one step.                        *)
(***************************************************************************)
EXTENDS Integers, Sequences, FiniteSets, TLC

\* ---------------------------------------------------------------- bounds
\* Calls of sendMessage (with a non-empty text) and of loadConversation(id)
\* started during one page session.
MaxOps == 2
\* Share requests issued by handleShare during one page session.
MaxShares == 2

\* ------------------------------------------------------------ value sets
\* JavaScript null, the initial currentConversationId: the one falsy id.  Ids
\* are compared with == in the source (script.js:122, 143), so the string "7"
\* parsed from the URL or read from dataset.id and the number 7 of a create
\* response are the same id here.
Null == 0
\* The conversation ids the server hands out.
Ids == { 1, 2 }

\* Texts are sequences of characters.
InputTexts == { <<>>, <<" ">>, <<" ", "h">> }
ChipTexts == { <<" ">>, <<"h">> }
ReplyTexts == { <<"r">> }
\* A conversation is titled "New Chat" until the server has generated a title.
Titles == { "New Chat", "Trip" }

\* What the server can answer.
\* A request fails by a rejected promise (fetch rejects on a transport error,
\* response.json() on an unparsable body) or by a body with an error field.
ShareUrls == { << "u1" >>, << "u2" >> }
FailureKinds == { "rejected", "errorField" }
\* The sidebar list carries the generated titles.
HistoryTitles == { "Trip" }
HistoryEntries == [id : Ids, title : HistoryTitles]
HistoryResponses ==
    { <<>> } \cup { <<a>> : a \in HistoryEntries }
    \cup { p \in HistoryEntries \X HistoryEntries : p[1].id # p[2].id }
HistoryOutcomes ==
    { [kind |-> "ok", list |-> r] : r \in HistoryResponses }
    \cup { [kind |-> "fail", list |-> <<>>], [kind |-> "notArray", list |-> <<>>] }
ServerMessageLists ==
    { <<>>,
      << [content |-> <<"q">>, sender |-> "user"] >>,
      << [content |-> <<"q">>, sender |-> "user"], [content |-> <<"a">>, sender |-> "model"] >> }
ConversationData == [title : Titles, messages : ServerMessageLists]

VARIABLES
    currentConversationId,  \* script.js:3
    url,                    \* window.location, written by history.pushState
    chatBox,                \* children of #chat-box, in document order
    suggestionsDisplay,     \* suggestionsContainer.style.display
    typingIndicator,        \* typingIndicator.style.display
    chatTitle,              \* chatTitle.textContent
    shareChatBtn,           \* shareChatBtn.style.display
    exportMenuBtn,          \* exportMenuBtn.style.display
    conversationHistory,    \* the .conversation-link children of the sidebar
    messageInput,           \* messageInput.value
    sends,                  \* the sendMessage calls, in the order they started
    loads,                  \* the loadConversation(id) calls, in start order
    initHistory,            \* init's own loadConversationHistory call
    established,            \* ids returned by a create or set by a load
    shown,                  \* the conversation loadConversation last rendered
                            \* into chatBox, Null once resetChatArea emptied it
    shareModal,             \* shareModal.style.display
    shareLinkInput,         \* shareLinkInput.value
    shares,                 \* the handleShare calls that issued a request
    alerts                  \* the messages alert() was called with, in order

dom == << chatBox, suggestionsDisplay, typingIndicator, chatTitle, shareChatBtn,
          exportMenuBtn, conversationHistory, messageInput >>
vars == << currentConversationId, url, chatBox, suggestionsDisplay, typingIndicator,
           chatTitle, shareChatBtn, exportMenuBtn, conversationHistory, messageInput,
           sends, loads, initHistory, established, shown, shareModal,
           shareLinkInput, shares, alerts >>
share == << shareModal, shareLinkInput, shares, alerts >>

\* ------------------------------------------------------- pure operators
\* String.prototype.trim on a sequence of characters.
RECURSIVE TrimLeft(_)
TrimLeft(s) == IF Len(s) > 0 /\ Head(s) = " " THEN TrimLeft(Tail(s)) ELSE s
RECURSIVE TrimRight(_)
TrimRight(s) ==
    IF Len(s) > 0 /\ s[Len(s)] = " " THEN TrimRight(SubSeq(s, 1, Len(s) - 1)) ELSE s
Trim(s) == TrimRight(TrimLeft(s))

\* `!message` of a string: true of the empty string only.
IsFalsyText(message) == Len(message) = 0

\* `!currentConversationId` / `!convId`.
IsFalsyId(id) == id = Null

\* A sendMessage that creates a conversation whatever the session is.
AlwaysCreate(cid) == TRUE

\* sendMessage's test for creating a conversation first.
NeedsCreate(cid) == IsFalsyId(cid)

\* A sendMessage that sends to the id it captured when it started.
SendTargetAtStart(startId, cid) == startId

\* The id in the path of the send request: currentConversationId as it is
\* when the request is issued, not as it was when sendMessage started.
SendTarget(startId, cid) == cid

\* The two URL shapes and init's /\/conversation\/(\d+)/ match.
RootUrl == << "/" >>
ConversationUrl(id) == << "/conversation/", id >>
PathConversationId(path) ==
    IF Len(path) = 2 /\ path[1] = "/conversation/" THEN path[2] ELSE Null

\* marked.parse of a one-paragraph text.
MarkedParse(message) == << "<p>" >> \o message \o << "</p>" >>

\* The element addMessageToUI appends to the chat box.
MessageElement(message, sender) ==
    [cls |-> IF sender = "user" THEN "message user-message"
             ELSE IF sender = "model" THEN "message bot-message" ELSE "message",
     html |-> MarkedParse(message)]

\* suggestionsContainer as a child of the chat box.
SuggestionsNode == [cls |-> "suggestions", html |-> <<>>]
IsMessage(node) == node.cls # "suggestions"
RenderedMessages(box) == SelectSeq(box, IsMessage)
SuggestionsVisible ==
    /\ suggestionsDisplay = "flex"
    /\ \E i \in 1..Len(chatBox) : chatBox[i] = SuggestionsNode

\* `Error: ${error.message}` for each way a request can fail.
ErrorMessage(kind) ==
    IF kind = "rejected" THEN << "Failed to fetch" >> ELSE << "server error" >>
ErrorText(kind) == << "Error: " >> \o ErrorMessage(kind)

\* A loadConversation that renders without clearing the chat box first.
RenderWithoutClearing(box, messages) ==
    box \o [i \in 1..Len(messages) |->
               MessageElement(messages[i].content, messages[i].sender)]

\* chatBox.innerHTML = '' followed by data.messages.forEach(addMessageToUI).
RenderConversation(box, messages) ==
    [i \in 1..Len(messages) |-> MessageElement(messages[i].content, messages[i].sender)]

\* A loadConversationHistory that appends to the links it finds.
HistoryLinksAppended(old, list, cid) ==
    old \o [i \in 1..Len(list) |->
               [id |-> list[i].id, title |-> list[i].title, active |-> list[i].id = cid]]

\* The sidebar after loadConversationHistory's callback ran on `list`.
HistoryLinks(old, list, cid) ==
    [i \in 1..Len(list) |->
        [id |-> list[i].id, title |-> list[i].title, active |-> list[i].id = cid]]

\* A loadConversationHistory that marks the entry and leaves the title alone.
HistoryTitleKept(title, list, cid) == title

\* The title after that callback: each matching entry overwrites it.
RECURSIVE HistoryTitle(_, _, _)
HistoryTitle(title, list, cid) ==
    IF Len(list) = 0 THEN title
    ELSE HistoryTitle(IF Head(list).id = cid THEN Head(list).title ELSE title,
                      Tail(list), cid)

\* link.classList.toggle('active', link.dataset.id == convId) on every link.
ToggleActive(links, convId) ==
    [i \in 1..Len(links) |-> [links[i] EXCEPT !.active = (links[i].id = convId)]]

\* Ids a create response can carry: the server numbers a new conversation
\* apart from every conversation the page has seen.
SeenIds ==
    established
    \cup { conversationHistory[i].id : i \in 1..Len(conversationHistory) }
    \cup { loads[k].convId : k \in 1..Len(loads) }
FreshIds == Ids \ SeenIds

OpsStarted == Len(sends) + Len(loads)

\* The sendMessage calls that have not returned yet.
InFlightSends == { c \in 1..Len(sends) : sends[c].pc # "done" }

\* JSON.stringify({ message: message })
JsonMessage(message) == << "{", "message", ":" >> \o message \o << "}" >>

\* ------------------------------------------------------ shared effects
\* A resetChatArea that leaves the share and export controls alone.
ResetWithoutHidingControls ==
    /\ chatBox' = << SuggestionsNode >>
    /\ suggestionsDisplay' = "flex"
    /\ chatTitle' = "New Chat"
    /\ shown' = Null
    /\ UNCHANGED << shareChatBtn, exportMenuBtn >>

\* resetChatArea
ResetChatArea ==
    /\ chatBox' = << SuggestionsNode >>
    /\ suggestionsDisplay' = "flex"
    /\ chatTitle' = "New Chat"
    /\ shareChatBtn' = "none"
    /\ exportMenuBtn' = "none"
    /\ shown' = Null

\* The callback of loadConversationHistory, from `await response.json()` on.
ApplyHistory(outcome) ==
    CASE outcome.kind = "ok" ->
            /\ conversationHistory' =
                  HistoryLinks(conversationHistory, outcome.list, currentConversationId')
            /\ chatTitle' = HistoryTitle(chatTitle, outcome.list, currentConversationId')
      [] outcome.kind = "notArray" ->
            \* innerHTML is cleared, then conversations.forEach throws
            /\ conversationHistory' = <<>>
            /\ chatTitle' = chatTitle
      [] OTHER ->
            /\ UNCHANGED << conversationHistory, chatTitle >>

\* ------------------------------------------------------------------ Init
\* The state when the DOMContentLoaded handler returns: init has called
\* loadConversation(convId) and loadConversationHistory, each up to its
\* first pending fetch.  On "/" loadConversation(null) has reset the page.  On
\* /conversation/{id} the page is still as the server's template rendered it:
\* script.js does not say whether that shows the suggestions or the share and
\* export controls, so either may be shown or hidden.
Init ==
    \E path \in { RootUrl } \cup { ConversationUrl(i) : i \in Ids },
       tplSuggestions \in { "flex", "none" }, tplButtons \in { "flex", "none" } :
        LET convId == PathConversationId(path) IN
        /\ currentConversationId = Null
        /\ url = path
        /\ typingIndicator = "none"
        /\ conversationHistory = <<>>
        /\ messageInput = <<>>
        /\ sends = <<>>
        /\ initHistory = "fetch"
        /\ established = {}
        /\ shown = Null
        /\ shareModal = "none"
        /\ shareLinkInput = <<>>
        /\ shares = <<>>
        /\ alerts = <<>>
        /\ chatBox = << SuggestionsNode >>
        /\ chatTitle = "New Chat"
        /\ IF IsFalsyId(convId)
           THEN /\ suggestionsDisplay = "flex"
                /\ shareChatBtn = "none"
                /\ exportMenuBtn = "none"
                /\ loads = <<>>
           ELSE /\ suggestionsDisplay = tplSuggestions
                /\ shareChatBtn = tplButtons
                /\ exportMenuBtn = tplButtons
                /\ loads = << [convId |-> convId, pc |-> "fetch", result |-> "pending"] >>

\* --------------------------------------------------------------- actions
\* sendMessage(message), from its first line to its first pending fetch.
SendMessage(message) ==
    IF IsFalsyText(message)
    THEN /\ UNCHANGED << currentConversationId, url, chatBox, suggestionsDisplay,
                         typingIndicator, chatTitle, shareChatBtn, exportMenuBtn,
                         conversationHistory, sends, loads, initHistory, established, shown,
                         share >>
    ELSE /\ OpsStarted < MaxOps
         /\ suggestionsDisplay' = "none"
         /\ chatBox' = Append(chatBox, MessageElement(message, "user"))
         /\ typingIndicator' = "flex"
         /\ sends' = Append(sends,
              IF NeedsCreate(currentConversationId)
              THEN [pc |-> "create", message |-> message,
                    startId |-> currentConversationId, target |-> Null,
                    created |-> Null, body |-> <<>>, during |-> InFlightSends,
                    log |-> << "user", "show", "create" >>]
              ELSE [pc |-> "send", message |-> message,
                    startId |-> currentConversationId,
                    target |-> SendTarget(currentConversationId, currentConversationId),
                    created |-> Null, body |-> JsonMessage(message),
                    during |-> InFlightSends,
                    log |-> << "user", "show", "send" >>])
         /\ UNCHANGED << currentConversationId, url, chatTitle, shareChatBtn,
                         exportMenuBtn, conversationHistory, loads, initHistory,
                         established, shown, share >>

\* The form's submit handler.
SubmitForm(typed) ==
    /\ SendMessage(Trim(typed))
    /\ messageInput' = <<>>

\* The click handler of the suggestions container, on a chip.
ChipClick(text) ==
    /\ SuggestionsVisible
    /\ SendMessage(text)
    /\ UNCHANGED messageInput

\* POST /new_conversation answered with {conversation_id: id}.
CreateOk(c, id) ==
    /\ sends[c].pc = "create"
    /\ id \in FreshIds
    /\ currentConversationId' = id
    /\ url' = ConversationUrl(id)
    /\ established' = established \cup { id }
    /\ sends' = [sends EXCEPT ![c].pc = "hist1",
                              ![c].created = id,
                              ![c].log = @ \o << "createOk", "hist" >>]
    /\ UNCHANGED << dom, loads, initHistory, shown, share >>

\* A sendMessage without its finally block: a failure leaves the indicator on.
SendFailedShowing(c, kind, op) ==
    /\ chatBox' = Append(chatBox, MessageElement(ErrorText(kind), "model"))
    /\ sends' = [sends EXCEPT ![c].pc = "done",
                              ![c].log = @ \o << op, "error" >>]
    /\ UNCHANGED << currentConversationId, url, suggestionsDisplay, typingIndicator,
                    chatTitle, shareChatBtn, exportMenuBtn, conversationHistory,
                    messageInput, loads, initHistory, established, shown, share >>

\* A sendMessage whose catch block also appends an empty reply bubble.
SendFailedWithReply(c, kind, op) ==
    /\ chatBox' = chatBox \o << MessageElement(ErrorText(kind), "model"),
                                 MessageElement(<<>>, "model") >>
    /\ typingIndicator' = "none"
    /\ sends' = [sends EXCEPT ![c].pc = "done",
                              ![c].log = @ \o << op, "error", "reply", "hide" >>]
    /\ UNCHANGED << currentConversationId, url, suggestionsDisplay, chatTitle,
                    shareChatBtn, exportMenuBtn, conversationHistory, messageInput,
                    loads, initHistory, established, shown, share >>

\* The catch and finally blocks of sendMessage.
SendFailed(c, kind, op) ==
    /\ chatBox' = Append(chatBox, MessageElement(ErrorText(kind), "model"))
    /\ typingIndicator' = "none"
    /\ sends' = [sends EXCEPT ![c].pc = "done",
                              ![c].log = @ \o << op, "error", "hide" >>]
    /\ UNCHANGED << currentConversationId, url, suggestionsDisplay, chatTitle,
                    shareChatBtn, exportMenuBtn, conversationHistory, messageInput,
                    loads, initHistory, established, shown, share >>

\* POST /new_conversation failing.
CreateFail(c, kind) ==
    /\ sends[c].pc = "create"
    /\ SendFailed(c, kind, "createFail")

\* The first history refresh of a send settles; the send request is issued.
HistoryAfterCreate(c, outcome) ==
    /\ sends[c].pc = "hist1"
    /\ UNCHANGED currentConversationId
    /\ ApplyHistory(outcome)
    /\ sends' = [sends EXCEPT ![c].pc = "send",
                              ![c].target = SendTarget(sends[c].startId,
                                                       currentConversationId),
                              ![c].body = JsonMessage(sends[c].message),
                              ![c].log = @ \o << "histDone", "send" >>]
    /\ UNCHANGED << url, chatBox, suggestionsDisplay, typingIndicator, shareChatBtn,
                    exportMenuBtn, messageInput, loads, initHistory, established, shown,
                    share >>

\* A sendMessage that refreshes the sidebar before it renders the reply.
SendOkRefreshingFirst(c, reply) ==
    /\ sends[c].pc = "send"
    /\ chatBox' = Append(chatBox, MessageElement(reply, "model"))
    /\ sends' = [sends EXCEPT ![c].pc = "hist2",
                              ![c].log = @ \o << "sendOk", "hist", "reply" >>]
    /\ UNCHANGED << currentConversationId, url, suggestionsDisplay, typingIndicator,
                    chatTitle, shareChatBtn, exportMenuBtn, conversationHistory,
                    messageInput, loads, initHistory, established, shown, share >>

\* POST /conversations/{id}/send answered with {response: reply}.
SendOk(c, reply) ==
    /\ sends[c].pc = "send"
    /\ chatBox' = Append(chatBox, MessageElement(reply, "model"))
    /\ sends' = [sends EXCEPT ![c].pc = "hist2",
                              ![c].log = @ \o << "sendOk", "reply", "hist" >>]
    /\ UNCHANGED << currentConversationId, url, suggestionsDisplay, typingIndicator,
                    chatTitle, shareChatBtn, exportMenuBtn, conversationHistory,
                    messageInput, loads, initHistory, established, shown, share >>

\* POST /conversations/{id}/send failing.
SendFail(c, kind) ==
    /\ sends[c].pc = "send"
    /\ SendFailed(c, kind, "sendFail")

\* The second history refresh of a send settles; finally hides the indicator.
HistoryAfterSend(c, outcome) ==
    /\ sends[c].pc = "hist2"
    /\ UNCHANGED currentConversationId
    /\ ApplyHistory(outcome)
    /\ typingIndicator' = "none"
    /\ sends' = [sends EXCEPT ![c].pc = "done",
                              ![c].log = @ \o << "histDone", "hide" >>]
    /\ UNCHANGED << url, chatBox, suggestionsDisplay, shareChatBtn, exportMenuBtn,
                    messageInput, loads, initHistory, established, shown, share >>

\* init's loadConversationHistory settles.
InitHistoryDone(outcome) ==
    /\ initHistory = "fetch"
    /\ initHistory' = "done"
    /\ UNCHANGED currentConversationId
    /\ ApplyHistory(outcome)
    /\ UNCHANGED << url, chatBox, suggestionsDisplay, typingIndicator, shareChatBtn,
                    exportMenuBtn, messageInput, sends, loads, established, shown, share >>

\* The sidebar's click handler on the i-th link: loadConversation(dataset.id)
\* up to its fetch.
HistoryLinkClick(i) ==
    /\ i \in 1..Len(conversationHistory)
    /\ OpsStarted < MaxOps
    /\ loads' = Append(loads, [convId |-> conversationHistory[i].id, pc |-> "fetch",
                               result |-> "pending"])
    /\ UNCHANGED << currentConversationId, url, dom, sends, initHistory, established, shown,
                    share >>

\* GET /conversations/{convId} answered with {title, messages}.
LoadOk(k, data) ==
    /\ loads[k].pc = "fetch"
    /\ chatBox' = RenderConversation(chatBox, data.messages)
    /\ shown' = loads[k].convId
    /\ suggestionsDisplay' = "none"
    /\ chatTitle' = data.title
    /\ currentConversationId' = loads[k].convId
    /\ shareChatBtn' = "flex"
    /\ exportMenuBtn' = "flex"
    /\ url' = ConversationUrl(loads[k].convId)
    /\ conversationHistory' = ToggleActive(conversationHistory, loads[k].convId)
    /\ established' = established \cup { loads[k].convId }
    /\ loads' = [loads EXCEPT ![k].pc = "done", ![k].result = "ok"]
    /\ UNCHANGED << typingIndicator, messageInput, sends, initHistory, share >>

\* GET /conversations/{convId} failing: the catch block of loadConversation.
LoadFail(k, kind) ==
    /\ loads[k].pc = "fetch"
    /\ ResetChatArea
    /\ loads' = [loads EXCEPT ![k].pc = "done", ![k].result = "fail"]
    /\ UNCHANGED << currentConversationId, url, typingIndicator, conversationHistory,
                    messageInput, sends, initHistory, established, share >>

\* loadConversation with a null or empty id.
LoadConversationNull ==
    /\ ResetChatArea
    /\ currentConversationId' = Null
    /\ url' = RootUrl
    /\ UNCHANGED << typingIndicator, conversationHistory, messageInput, sends, loads,
                    initHistory, established, share >>

\* handleShare with a share request issued whatever the session is.
ShareAlways(cid) == TRUE

\* handleShare's test of the session id.
CanShare(cid) == ~IsFalsyId(cid)

\* The text handleShare's catch block passes to alert().
ShareAlert(kind) == << "Could not share chat: " >> \o ErrorMessage(kind)

\* The click handler of the share button, which can be clicked while it is
\* displayed: handleShare up to its fetch.
HandleShare ==
    /\ shareChatBtn = "flex"
    /\ IF CanShare(currentConversationId)
       THEN /\ Len(shares) < MaxShares
            /\ shares' = Append(shares, [convId |-> currentConversationId,
                                         pc |-> "fetch"])
       ELSE UNCHANGED shares
    /\ UNCHANGED << currentConversationId, url, dom, sends, loads, initHistory,
                    established, shown, shareModal, shareLinkInput, alerts >>

\* POST /conversations/{id}/share answered with {share_url: link}.
ShareOk(s, link) ==
    /\ shares[s].pc = "fetch"
    /\ shareLinkInput' = link
    /\ shareModal' = "flex"
    /\ shares' = [shares EXCEPT ![s].pc = "done"]
    /\ UNCHANGED << currentConversationId, url, dom, sends, loads, initHistory,
                    established, shown, alerts >>

\* POST /conversations/{id}/share failing: the catch block of handleShare.
ShareFail(s, kind) ==
    /\ shares[s].pc = "fetch"
    /\ alerts' = Append(alerts, ShareAlert(kind))
    /\ shares' = [shares EXCEPT ![s].pc = "done"]
    /\ UNCHANGED << currentConversationId, url, dom, sends, loads, initHistory,
                    established, shown, shareModal, shareLinkInput >>

\* The click handler of the modal's close button, inside the displayed modal.
CloseModal ==
    /\ shareModal = "flex"
    /\ shareModal' = "none"
    /\ UNCHANGED << currentConversationId, url, dom, sends, loads, initHistory,
                    established, shown, shareLinkInput, shares, alerts >>

\* A server answer to a request of some sendMessage call.
SendSettles ==
    \E c \in 1..Len(sends) :
        \/ \E id \in Ids : CreateOk(c, id)
        \/ \E kind \in FailureKinds : CreateFail(c, kind) \/ SendFail(c, kind)
        \/ \E outcome \in HistoryOutcomes :
              HistoryAfterCreate(c, outcome) \/ HistoryAfterSend(c, outcome)
        \/ \E reply \in ReplyTexts : SendOk(c, reply)

\* ---------------------------------------------------------- specification
Next ==
    \/ \E typed \in InputTexts : SubmitForm(typed)
    \/ \E text \in ChipTexts : ChipClick(text)
    \/ \E c \in 1..Len(sends), id \in Ids : CreateOk(c, id)
    \/ \E c \in 1..Len(sends), kind \in FailureKinds : CreateFail(c, kind)
    \/ \E c \in 1..Len(sends), outcome \in HistoryOutcomes : HistoryAfterCreate(c, outcome)
    \/ \E c \in 1..Len(sends), reply \in ReplyTexts : SendOk(c, reply)
    \/ \E c \in 1..Len(sends), kind \in FailureKinds : SendFail(c, kind)
    \/ \E c \in 1..Len(sends), outcome \in HistoryOutcomes : HistoryAfterSend(c, outcome)
    \/ \E outcome \in HistoryOutcomes : InitHistoryDone(outcome)
    \/ \E i \in 1..Cardinality(Ids) : HistoryLinkClick(i)
    \/ \E k \in 1..Len(loads), data \in ConversationData : LoadOk(k, data)
    \/ \E k \in 1..Len(loads), kind \in FailureKinds : LoadFail(k, kind)

\* The handlers as script.js wires them: loadConversation(null) runs in init only.
Spec == Init /\ [][Next]_vars

\* The view-model's operations called directly: loadConversation(null) at any time.
NextOps == Next \/ LoadConversationNull
SpecOps == Init /\ [][NextOps]_vars

\* The same handlers with the share button and the share modal.  The share
\* handlers read currentConversationId and shareChatBtn and write the share
\* modal, the link field and alert() only, so they are left out of Spec.
NextShare ==
    \/ Next
    \/ HandleShare
    \/ \E s \in 1..Len(shares), link \in ShareUrls : ShareOk(s, link)
    \/ \E s \in 1..Len(shares), kind \in FailureKinds : ShareFail(s, kind)
    \/ CloseModal
SpecShare == Init /\ [][NextShare]_vars

\* Every request of a sendMessage call is eventually answered or rejected.
SpecFair == Spec /\ WF_vars(SendSettles)

\* ------------------------------------------------------ what is observed
\* No sendMessage and no loadConversation call is in flight.
Quiescent ==
    /\ \A c \in 1..Len(sends) : sends[c].pc = "done"
    /\ \A k \in 1..Len(loads) : loads[k].pc = "done"

\* No call at all is in flight.
Idle == Quiescent /\ initHistory = "done"

\* The new-chat view: suggestions shown, share and export controls hidden.
NewChatView ==
    /\ SuggestionsVisible
    /\ shareChatBtn = "none"
    /\ exportMenuBtn = "none"

\* The state a user or a test observes.
Observable ==
    [messages |-> RenderedMessages(chatBox), suggestions |-> SuggestionsVisible,
     title |-> chatTitle, share |-> shareChatBtn, export |-> exportMenuBtn,
     id |-> currentConversationId, path |-> url]

\* What loadConversation(null) is specified to end with.
NewChatObservable ==
    [messages |-> <<>>, suggestions |-> TRUE, title |-> "New Chat", share |-> "none",
     export |-> "none", id |-> Null, path |-> RootUrl]

\* The log of one sendMessage call.
InLog(c, e) == \E i \in 1..Len(sends[c].log) : sends[c].log[i] = e
Count(c, e) == Cardinality({ i \in 1..Len(sends[c].log) : sends[c].log[i] = e })
Pos(c, e) == CHOOSE i \in 1..Len(sends[c].log) : sends[c].log[i] = e
SendIssued(c) == InLog(c, "send")

\* The conversation a sendMessage call belongs to: the one active when it
\* started or, started without one, the one its own create request returned
\* (Null until then).
OwnConversation(c) ==
    IF sends[c].startId # Null THEN sends[c].startId ELSE sends[c].created

\* Call c appends its reply bubble or its error bubble in this step.
AppendsBubble(c) ==
    \/ \E reply \in ReplyTexts : SendOk(c, reply)
    \/ \E kind \in FailureKinds : SendFail(c, kind) \/ CreateFail(c, kind)

\* A loadConversationHistory call settles with `outcome` in this step.
HistoryStep(outcome) ==
    \/ InitHistoryDone(outcome)
    \/ \E c \in 1..Len(sends) :
          HistoryAfterCreate(c, outcome) \/ HistoryAfterSend(c, outcome)

\* The entries marked active are exactly those of conversation cid.
ActiveFollows(links, cid) ==
    \A i \in 1..Len(links) : links[i].active <=> links[i].id = cid

\* Nothing but init's loadConversation and loadConversationHistory has run.
PageStartOnly == sends = <<>> /\ Len(loads) = 1

\* Empty or whitespace-only.
IsBlank(text) == Trim(text) = <<>>

\* ------------------------------------------------------------------- C1
\* C1: whenever no sendMessage and no loadConversation call is in flight,
\* currentConversationId is null exactly when the page shows the new-chat view
\* (suggestions visible, share and export controls hidden), and non-null exactly
\* when it shows a conversation.
SessionStateInvariant ==
    Quiescent =>
        /\ (currentConversationId = Null => NewChatView)
        /\ (currentConversationId # Null => ~NewChatView)

\* ------------------------------------------------------------------- C2
\* C2: a loadConversation(id) whose request fails ends in the state that
\* loadConversation(null) ends in: no message, suggestions visible, title
\* "New Chat", share and export hidden, session id null, URL "/".
FailedLoadEndsAsReset ==
    [][ \A k \in 1..Len(loads), kind \in FailureKinds :
            LoadFail(k, kind) => Observable' = NewChatObservable ]_vars

\* ------------------------------------------------------------------- C3
\* C3: every send request that was issued carries a non-null conversation id
\* that a create response returned or a successful load set before, and a call
\* that had to create received its create response before it issued its send.
NoSendToUnestablished ==
    \A c \in 1..Len(sends) :
        SendIssued(c) =>
            /\ sends[c].target # Null
            /\ sends[c].target \in established
            /\ InLog(c, "create") =>
                  /\ InLog(c, "createOk")
                  /\ Pos(c, "createOk") < Pos(c, "send")

\* A call that started without a session has created one and sent to it.
SentAfterCreate ==
    \E c \in 1..Len(sends) :
        /\ sends[c].startId = Null
        /\ SendIssued(c)
        /\ sends[c].target \in established

\* ------------------------------------------------------------------- C4
\* C4: a sendMessage with a non-empty text that starts with no session id
\* issues exactly one create request, before its send request; one that starts
\* with a session id issues no create request.
CreateExactlyWhenNoSession ==
    \A c \in 1..Len(sends) :
        /\ sends[c].startId = Null =>
              /\ Count(c, "create") = 1
              /\ SendIssued(c) => Pos(c, "create") < Pos(c, "send")
        /\ sends[c].startId # Null => Count(c, "create") = 0

\* One finished call created and sent, another found the session and sent.
BothKindsOfSend ==
    /\ \E c \in 1..Len(sends) :
          sends[c].startId = Null /\ SendIssued(c) /\ sends[c].pc = "done"
    /\ \E c \in 1..Len(sends) :
          sends[c].startId # Null /\ SendIssued(c) /\ sends[c].pc = "done"

\* ------------------------------------------------------------------- C5
\* C5: sendMessage with an empty or whitespace-only text issues no request and
\* changes nothing visible, from the form's submit handler and from a click on
\* a suggestion chip alike.
BlankSendIsNoOp ==
    [][ /\ \A typed \in InputTexts :
              IsBlank(typed) /\ SubmitForm(typed) =>
                  UNCHANGED << chatBox, suggestionsDisplay, typingIndicator,
                               currentConversationId, url, sends >>
        /\ \A text \in ChipTexts :
              IsBlank(text) /\ ChipClick(text) =>
                  UNCHANGED << chatBox, suggestionsDisplay, typingIndicator,
                               currentConversationId, url, sends >> ]_vars

\* ------------------------------------------------------------------- C6
\* What C6 says of the step in which a create or send request of call c fails,
\* but for the session id: one error bubble and nothing else is appended, no
\* reply is rendered for the call, the call issues no further request (after a
\* failed create no send request at all), and the busy indicator is hidden.
FailureStep(c, kind) ==
    /\ chatBox' = Append(chatBox, MessageElement(ErrorText(kind), "model"))
    /\ Count(c, "error")' = 1
    /\ Count(c, "reply")' = 0
    /\ Count(c, "create")' <= 1
    /\ Count(c, "send")' <= 1
    /\ InLog(c, "createFail")' => ~SendIssued(c)'
    /\ sends'[c].pc = "done"
    /\ typingIndicator' = "none"

\* C6 as claimed: a sendMessage call whose create or send request fails renders
\* exactly one error bubble and no reply, issues no retry and no further
\* request, hides the busy indicator, and leaves currentConversationId null
\* after a failed create and set after a failed send.
FailedSendLeavesNullOrId ==
    [][ \A c \in 1..Len(sends), kind \in FailureKinds :
          /\ CreateFail(c, kind) =>
                FailureStep(c, kind) /\ currentConversationId' = Null
          /\ SendFail(c, kind) =>
                FailureStep(c, kind) /\ currentConversationId' # Null ]_vars

\* C6 as amended: the same, but a failed create leaves currentConversationId
\* as it was before the failure: null, unless another send or a load has
\* established an id while the create was pending.
FailedSendIsRecoverable ==
    [][ \A c \in 1..Len(sends), kind \in FailureKinds :
          /\ CreateFail(c, kind) =>
                /\ FailureStep(c, kind)
                /\ currentConversationId' = currentConversationId
                /\ established = {} => currentConversationId' = Null
          /\ SendFail(c, kind) =>
                /\ FailureStep(c, kind)
                /\ currentConversationId' = currentConversationId
                /\ currentConversationId' # Null ]_vars

\* One call has failed on its create and another on its send.
FailedCreateAndFailedSend ==
    /\ \E c \in 1..Len(sends) : sends[c].pc = "done" /\ InLog(c, "createFail")
    /\ \E c \in 1..Len(sends) : sends[c].pc = "done" /\ InLog(c, "sendFail")

\* ------------------------------------------------------------------- C7
\* The sidebar links that carry the class 'active'.
ActiveLinks(links) == { i \in 1..Len(links) : links[i].active }

\* What C7 says of the step in which loadConversation(id) succeeds, but for
\* the number of active sidebar entries: the chat box holds the returned
\* messages and nothing else, in order; the session id is id; share and export
\* are shown; the URL is /conversation/{id}; a sidebar entry is active exactly
\* if its id is id.
LoadStep(k, data) ==
    /\ Len(chatBox') = Len(data.messages)
    /\ \A i \in 1..Len(data.messages) :
          chatBox'[i] = MessageElement(data.messages[i].content, data.messages[i].sender)
    /\ currentConversationId' = loads[k].convId
    /\ shareChatBtn' = "flex"
    /\ exportMenuBtn' = "flex"
    /\ PathConversationId(url') = loads[k].convId
    /\ \A i \in 1..Len(conversationHistory') :
          conversationHistory'[i].active <=> conversationHistory'[i].id = loads[k].convId

\* C7 as claimed: a successful loadConversation(id) ends with exactly the
\* returned messages in the chat box, session id = id, share and export shown,
\* URL /conversation/{id}, and exactly one sidebar entry active, that of id.
LoadMarksExactlyOneActive ==
    [][ \A k \in 1..Len(loads), data \in ConversationData :
          LoadOk(k, data) =>
              /\ LoadStep(k, data)
              /\ Cardinality(ActiveLinks(conversationHistory')) = 1 ]_vars

\* C7 as amended: the same, but the active sidebar entries are exactly those
\* whose id is id: one if the sidebar lists id when the load completes, none if
\* it does not (at page start the load can complete before the list arrives).
LoadShowsConversation ==
    [][ \A k \in 1..Len(loads), data \in ConversationData :
          LoadOk(k, data) =>
              /\ LoadStep(k, data)
              /\ Cardinality(ActiveLinks(conversationHistory')) <= 1
              /\ (\E i \in 1..Len(conversationHistory) :
                      conversationHistory[i].id = loads[k].convId)
                  => Cardinality(ActiveLinks(conversationHistory')) = 1 ]_vars

\* A load has replaced a sent message by the server's two messages and marked
\* its link, one of two, active.
LoadedOverOldMessages ==
    \E k \in 1..Len(loads) :
        /\ loads[k].result = "ok"
        /\ currentConversationId = loads[k].convId
        /\ Len(sends) > 0
        /\ Len(chatBox) = 2
        /\ \A i \in 1..Len(chatBox) : chatBox[i].html # MarkedParse(sends[1].message)
        /\ Len(conversationHistory) = 2
        /\ Cardinality(ActiveLinks(conversationHistory)) = 1

\* ------------------------------------------------------------------- C8
\* C8: loadConversation(null) ends, from any state, with no message,
\* suggestions visible, title "New Chat", share and export hidden, session id
\* null and URL "/"; a second call right after changes none of these.
LoadNullIsIdempotent ==
    [][ LoadConversationNull =>
          /\ Observable' = NewChatObservable
          /\ Observable = NewChatObservable => Observable' = Observable ]_vars

\* loadConversation(null) has reset a page that had a conversation.
ResetAfterConversation ==
    /\ Observable = NewChatObservable
    /\ established # {}

\* ------------------------------------------------------------------- C9
\* C9: whenever no call is in flight, the URL is "/" exactly if
\* currentConversationId is null and /conversation/{id} exactly if it is id.
UrlFollowsSession ==
    Idle =>
        /\ (url = RootUrl <=> currentConversationId = Null)
        /\ \A id \in Ids : (url = ConversationUrl(id) <=> currentConversationId = id)

\* ------------------------------------------------------------------ C10
\* The {id, title} pairs the sidebar shows, in order.
LinkEntries(links) == [i \in 1..Len(links) |-> [id |-> links[i].id, title |-> links[i].title]]

\* C10: every loadConversationHistory that succeeds leaves the sidebar with
\* exactly the entries of its response, in response order, none twice and none
\* left from an earlier call, also while another refresh is in flight.
HistoryReplacesSidebar ==
    [][ \A outcome \in HistoryOutcomes :
          ( /\ outcome.kind = "ok"
            /\ \/ InitHistoryDone(outcome)
               \/ \E c \in 1..Len(sends) :
                     HistoryAfterCreate(c, outcome) \/ HistoryAfterSend(c, outcome) )
          => /\ LinkEntries(conversationHistory') = outcome.list
             /\ \A i, j \in 1..Len(conversationHistory') :
                   conversationHistory'[i].id = conversationHistory'[j].id => i = j ]_vars

\* The second refresh of one send has filled the sidebar with two entries while
\* init's own refresh and the first refresh of another send are in flight.
RefreshesOverlap ==
    /\ Len(conversationHistory) = 2
    /\ initHistory = "fetch"
    /\ \E c \in 1..Len(sends) : sends[c].pc = "hist1"
    /\ \E c \in 1..Len(sends) : Count(c, "histDone") = 2

\* ------------------------------------------------------------------ C11
\* What one sendMessage call started without a session does when every request
\* succeeds, in order.
SuccessfulFirstSend ==
    << "user", "show", "create", "createOk", "hist", "histDone", "send", "sendOk",
       "reply", "hist", "histDone", "hide" >>

IsPrefix(s, t) == Len(s) <= Len(t) /\ SubSeq(t, 1, Len(s)) = s

\* No request of the call has failed so far.
Unfailed(c) == ~InLog(c, "createFail") /\ ~InLog(c, "sendFail")

\* C11: in a sendMessage call started without a session whose requests all
\* succeed, the user's message is rendered and the indicator shown before any
\* response; the create request comes next; the send request, whose body is
\* {message: text}, is issued only after the create response; the reply bubble
\* with the server's text is rendered only after the send response; the sidebar
\* refresh follows the bubble; the indicator is hidden last.
FirstSendOrder ==
    /\ [] \A c \in 1..Len(sends) :
            (sends[c].startId = Null /\ Unfailed(c)) =>
                /\ IsPrefix(sends[c].log, SuccessfulFirstSend)
                /\ (sends[c].pc = "done" <=> sends[c].log = SuccessfulFirstSend)
                /\ sends[c].body =
                      IF SendIssued(c) THEN JsonMessage(sends[c].message) ELSE <<>>
    /\ [][ /\ \A text \in InputTexts \cup ChipTexts :
                (SendMessage(text) /\ ~IsFalsyText(text)) =>
                    /\ chatBox' = Append(chatBox, MessageElement(text, "user"))
                    /\ typingIndicator' = "flex"
           /\ \A c \in 1..Len(sends), reply \in ReplyTexts :
                SendOk(c, reply) =>
                    chatBox' = Append(chatBox, MessageElement(reply, "model"))
           /\ \A c \in 1..Len(sends), outcome \in HistoryOutcomes :
                HistoryAfterSend(c, outcome) => typingIndicator' = "none" ]_vars

\* A sendMessage call started without a session has finished with every request
\* answered: conversation created, message sent, reply rendered.
FirstSendSucceeded ==
    \E c \in 1..Len(sends) :
        /\ sends[c].startId = Null
        /\ sends[c].pc = "done"
        /\ Unfailed(c)
        /\ sends[c].created = sends[c].target
        /\ \E i \in 1..Len(chatBox) : chatBox[i] = MessageElement(<< "r" >>, "model")

\* ------------------------------------------------------------------ C12
\* C12: handleShare with a null currentConversationId issues no request and
\* changes nothing; with an id it issues one share request for that id and
\* nothing else; a share response puts the returned link into the link field and
\* opens the modal; a failure calls alert() once, leaves the modal as it was
\* and leaves the chat box, the session id and the URL unchanged.
ShareContract ==
    /\ [] \A s \in 1..Len(shares) : shares[s].convId # Null
    /\ [][ /\ HandleShare =>
                IF currentConversationId = Null
                THEN UNCHANGED vars
                ELSE /\ shares' = Append(shares, [convId |-> currentConversationId,
                                                  pc |-> "fetch"])
                     /\ UNCHANGED << shareModal, shareLinkInput, alerts >>
           /\ \A s \in 1..Len(shares), link \in ShareUrls :
                ShareOk(s, link) =>
                    /\ shareLinkInput' = link
                    /\ shareModal' = "flex"
                    /\ alerts' = alerts
           /\ \A s \in 1..Len(shares), kind \in FailureKinds :
                ShareFail(s, kind) =>
                    /\ alerts' = Append(alerts, ShareAlert(kind))
                    /\ shareModal' = shareModal
                    /\ shareLinkInput' = shareLinkInput
                    /\ UNCHANGED << chatBox, currentConversationId, url >> ]_vars

\* One share request has failed with the modal closed, another has been
\* answered and its link is shown in the open modal.
SharedAfterRefusal ==
    /\ Len(alerts) = 1
    /\ Len(shares) = 2
    /\ \A s \in 1..Len(shares) : shares[s].pc = "done"
    /\ shareModal = "flex"
    /\ shareLinkInput \in ShareUrls

\* ------------------------------------------------------------------ C13
\* C13: the chat box never mixes conversations: the messages a loadConversation
\* rendered into it are those of currentConversationId, and a sendMessage call
\* never appends its reply or error bubble to a chat box that a loadConversation
\* has filled with the messages of another conversation than the call's own.
ChatBoxOfOneConversation ==
    /\ [](shown \in { Null, currentConversationId })
    /\ [][ \A c \in 1..Len(sends) :
              AppendsBubble(c) => shown \in { Null, OwnConversation(c) } ]_vars

\* ------------------------------------------------------------------ C14
\* C14: when a loadConversationHistory call has rebuilt the sidebar, the active
\* entries are exactly those whose id is currentConversationId, and the title
\* shown is that of such an entry if there is one.  At page start on
\* /conversation/{id}, once the load of id has succeeded and the sidebar has
\* arrived, in either order, the session id is id, the active entries are
\* exactly those of id and the title is the one the later response carried for
\* that conversation.
HistoryMarksSession ==
    /\ [][ /\ \A outcome \in HistoryOutcomes :
                (outcome.kind = "ok" /\ HistoryStep(outcome)) =>
                    /\ ActiveFollows(conversationHistory', currentConversationId')
                    /\ \A i \in 1..Len(conversationHistory') :
                          conversationHistory'[i].id = currentConversationId'
                              => chatTitle' = conversationHistory'[i].title
                    /\ (\A i \in 1..Len(conversationHistory') :
                          conversationHistory'[i].id # currentConversationId')
                              => chatTitle' = chatTitle
           /\ \A data \in ConversationData :
                (PageStartOnly /\ initHistory = "done" /\ LoadOk(1, data)) =>
                    /\ currentConversationId' = loads[1].convId
                    /\ ActiveFollows(conversationHistory', loads[1].convId)
                    /\ chatTitle' = data.title ]_vars
    /\ [] ( (PageStartOnly /\ initHistory = "done" /\ loads[1].result = "ok") =>
               /\ currentConversationId = loads[1].convId
               /\ ActiveFollows(conversationHistory, loads[1].convId) )

\* The page was opened on a conversation; its load has succeeded, the sidebar
\* has arrived with two entries, the one of the conversation is active and its
\* title is shown.
PageStartSettled ==
    /\ PageStartOnly
    /\ initHistory = "done"
    /\ loads[1].result = "ok"
    /\ url = ConversationUrl(currentConversationId)
    /\ Len(conversationHistory) = 2
    /\ \E i \in 1..2 : /\ conversationHistory[i].active
                       /\ conversationHistory[i].id = currentConversationId
                       /\ conversationHistory[i].title = chatTitle

\* ------------------------------------------------------------------ C15
\* Call c has returned and the last thing it did was hide the indicator.
ReturnedHiding(c) ==
    /\ Len(sends) >= c
    /\ sends[c].pc = "done"
    /\ sends[c].log[Len(sends[c].log)] = "hide"

\* C15: if every request is eventually answered or rejected, every sendMessage
\* call with non-empty text eventually returns having hidden the indicator,
\* whether its requests succeed or fail, and the indicator is hidden whenever
\* no sendMessage call is in flight.
IndicatorEventuallyHidden ==
    /\ \A c \in 1..MaxOps : (Len(sends) >= c) ~> ReturnedHiding(c)
    /\ [][ \A c \in 1..Len(sends) :
              (sends[c].pc # "done" /\ sends'[c].pc = "done")
                  => typingIndicator' = "none" ]_vars
    /\ [](InFlightSends = {} => typingIndicator = "none")

\* Two sendMessage calls have returned, one after a failed request and one
\* with its reply rendered, and the indicator is hidden.
FailedAndAnsweredReturned ==
    /\ \E c \in 1..Len(sends) : sends[c].pc = "done" /\ ~Unfailed(c)
    /\ \E c \in 1..Len(sends) : sends[c].pc = "done" /\ InLog(c, "reply")
    /\ InFlightSends = {}
    /\ typingIndicator = "none"

\* ------------------------------------------------------------------ C16
\* C16: the send request of every sendMessage call is addressed to the call's
\* own conversation: the one active when the call started or, if there was
\* none, the one its own create request returned.
SendGoesToOwnConversation ==
    \A c \in 1..Len(sends) : SendIssued(c) => sends[c].target = OwnConversation(c)

\* ------------------------------------------------------------------ C17
\* Call d started while call c, started without a session, had not returned.
Overlap(c, d) == c \in sends[d].during /\ sends[c].startId = Null

\* C17: two overlapping sendMessage calls, the first started from the new-chat
\* view, issue at most one create request between them, send both messages to
\* the same conversation and leave no conversation they created without a
\* send request once both have returned.
OverlappingSendsCreateOnce ==
    \A c, d \in 1..Len(sends) :
        Overlap(c, d) =>
            /\ ~(InLog(c, "create") /\ InLog(d, "create"))
            /\ (SendIssued(c) /\ SendIssued(d)) => sends[c].target = sends[d].target
            /\ (sends[c].pc = "done" /\ sends[d].pc = "done") =>
                  \A b \in { c, d } :
                      sends[b].created # Null =>
                          \E a \in { c, d } :
                              SendIssued(a) /\ sends[a].target = sends[b].created

\* ------------------------------------------------------------------ C18
\* C18: when several loadConversation calls have all succeeded, the step that
\* completes the last of them leaves the page on the conversation requested
\* last: session id, chat box, URL and active sidebar entries are its own.
LastRequestedLoadWins ==
    [][ \A k \in 1..Len(loads), data \in ConversationData :
          ( /\ Len(loads) >= 2
            /\ LoadOk(k, data)
            /\ \A j \in 1..Len(loads) : loads'[j].result = "ok" )
          => LET last == loads[Len(loads)].convId IN
             /\ currentConversationId' = last
             /\ shown' = last
             /\ url' = ConversationUrl(last)
             /\ ActiveFollows(conversationHistory', last) ]_vars

\* ------------------------------------------------------------------ C19
\* C19: the busy indicator is shown in every state in which at least one
\* sendMessage call has not returned yet.
IndicatorShownWhileSending ==
    InFlightSends # {} => typingIndicator = "flex"

====
